---- MODULE Spec2Model ----
(***************************************************************************)
(* Tic-Tac-Toe engine: Board, BoardMove, the minimax move selection of the *)
(* CPU player and the Game turn state machine (Game::start).               *)
(*                                                                         *)
(* A Cell is a string: "O", "X", or, for Cell::Empty(label), the label     *)
(* character itself ("1".."9" on a board built by Board::new).  A Board is *)
(* a function from the indices 0..8 to cells.  Option values are tuples:   *)
(* None is <<>> and Some(v) is <<v>>.  Enum values are tagged tuples.      *)
(*                                                                         *)
(* Operator parameters never carry the name of a state variable (bd, not   *)
(* board): TLC evaluates a constant definition once only when none of the  *)
(* names it reaches is a variable's.                                       *)
(***************************************************************************)
EXTENDS Integers, Sequences, FiniteSets, TLC

\* ------------------------------------------------------------ bounds

\* Most answers the input collaborator gives within one turn (the last one
\* names an Empty cell).
MaxRequests == 3
\* Most calls of Game::start made on one Game.
MaxStarts == 3

\* ------------------------------------------------------------ values

None == <<>>
Some(v) == <<v>>

CellO == "O"
CellX == "X"

IsEmpty(cell) == cell \notin {CellO, CellX}

\* Indices of the cells of a board, in iteration order.
Indices == 0 .. 8

Human(name) == <<"Human", name>>
CPU == <<"CPU">>

Draw == <<"Draw">>
PlayerWon(name, line) == <<"PlayerWon", name, line>>

NotStarted == <<"NotStarted">>
Ongoing == <<"Ongoing">>
Finished(result) == <<"Finished", result>>

IsFinished(gs) == gs[1] = "Finished"

\* ------------------------------------------------------------ board.rs

\* The table of board.rs; line i of the source is Board_WINNING_LINES[i + 1].
Board_WINNING_LINES ==
    << <<0, 3, 6>>, <<1, 4, 7>>, <<2, 5, 8>>,
       <<0, 1, 2>>, <<3, 4, 5>>, <<6, 7, 8>>,
       <<0, 4, 8>>, <<2, 4, 6>> >>

\* ((i + 1) as u8 + b'0') as char
AsciiNum(num) == <<"0", "1", "2", "3", "4", "5", "6", "7", "8", "9">>[num + 1]

opposite(cell) ==
    IF cell = CellO THEN CellX
    ELSE IF cell = CellX THEN CellO
    ELSE cell

\* Faulty variant: the upper limit is not tested.
try_new_no_upper_limit(num) ==
    IF num < 1 THEN <<"Err">>
    ELSE <<"Ok", [index |-> num - 1]>>

\* Result<BoardMove, ()>: <<"Ok", move>> or <<"Err">>.
try_new(num) ==
    IF num < 1 \/ num > 9 THEN <<"Err">>
    ELSE <<"Ok", [index |-> num - 1]>>

unwrap(result) == result[2]

\* BoardMove::index
BoardMove_index(board_move) == board_move.index

\* usize::MAX in decimal, what 0 - 1 wraps to where overflow is not checked.
UsizeMaxString == "18446744073709551615"

\* <BoardMove as Display>::fmt: the outcomes of formatting index() - 1, a
\* subtraction on usize.  At index 0 it overflows: a panic where overflow is
\* checked, the wrapped value where it is not.
BoardMove_fmt(board_move) ==
    IF BoardMove_index(board_move) = 0
    THEN {<<"panic">>, <<"return", UsizeMaxString>>}
    ELSE {<<"return", AsciiNum(BoardMove_index(board_move) - 1)>>}

\* Mutation: the cells keep the label of the initial fill.
Board_new_unlabelled == [i \in Indices |-> AsciiNum(0)]

Board_new == [i \in Indices |-> AsciiNum(i + 1)]

is_full(bd) == ~ \E i \in Indices : IsEmpty(bd[i])

\* One move per cell, in index order: the moves the loop of
\* get_possible_moves may push.
MovesInOrder == [i \in 1 .. 9 |-> unwrap(try_new(i))]

\* Mutation: the loop stops after the first Empty cell.
get_possible_moves_first_only(bd) ==
    LET moves == SelectSeq(MovesInOrder, LAMBDA mv : IsEmpty(bd[mv.index]))
    IN  IF moves = <<>> THEN <<>> ELSE <<moves[1]>>

get_possible_moves(bd) ==
    SelectSeq(MovesInOrder, LAMBDA mv : IsEmpty(bd[mv.index]))

Board_is_valid_move(bd, board_move) ==
    \E k \in 1 .. Len(get_possible_moves(bd)) : get_possible_moves(bd)[k] = board_move

\* Mutation: three equal cells count, whatever they hold.
LineFilled_any_cell(bd, cell_triplet) ==
    LET c1 == bd[cell_triplet[1]]
        c2 == bd[cell_triplet[2]]
        c3 == bd[cell_triplet[3]]
    IN  c1 = c2 /\ c1 = c3

\* The test of one iteration of get_winning_line.
LineFilled(bd, cell_triplet) ==
    LET c1 == bd[cell_triplet[1]]
        c2 == bd[cell_triplet[2]]
        c3 == bd[cell_triplet[3]]
    IN  c1 = c2 /\ c1 = c3 /\ c1 \in {CellO, CellX}

\* The first line, in table order, that passes the test.
get_winning_line(bd) ==
    IF \E i \in 0 .. 7 : LineFilled(bd, Board_WINNING_LINES[i + 1])
    THEN Some(CHOOSE i \in 0 .. 7 :
                 /\ LineFilled(bd, Board_WINNING_LINES[i + 1])
                 /\ \A j \in 0 .. (i - 1) : ~LineFilled(bd, Board_WINNING_LINES[j + 1]))
    ELSE None

\* ------------------------------------------------------------ player.rs

\* Number of cells holding O or X.
OccupiedCount(bd) == Cardinality({i \in Indices : bd[i] \in {CellO, CellX}})

SymbolOfCount(cnt) == IF cnt % 2 = 0 THEN CellO ELSE CellX

current_player_symbol(bd) == SymbolOfCount(OccupiedCount(bd))

SetMax(S) == CHOOSE v \in S : \A w \in S : w <= v
SetMin(S) == CHOOSE v \in S : \A w \in S : w >= v

\* Faulty variant: the depth is left out of the score of a completed line.
minimax_at_undepthed(bd, maximizing_player_symbol, is_maximizing, depth, deeper) ==
    LET winning_line == get_winning_line(bd)
    IN  IF winning_line # None
        THEN LET winner_symbol == bd[Board_WINNING_LINES[winning_line[1] + 1][1]]
             IN  IF winner_symbol = maximizing_player_symbol
                 THEN 100
                 ELSE -100
        ELSE IF is_full(bd)
        THEN 0
        ELSE LET initial_score == IF is_maximizing THEN -1000 ELSE 1000
                 current_symbol == IF is_maximizing
                                   THEN maximizing_player_symbol
                                   ELSE opposite(maximizing_player_symbol)
                 moves == get_possible_moves(bd)
                 values == { deeper[[bd EXCEPT ![moves[k].index] = current_symbol]]
                                   [<<maximizing_player_symbol, ~is_maximizing, depth + 1>>] :
                             k \in 1 .. Len(moves) }
             IN  IF is_maximizing
                 THEN SetMax({initial_score} \cup values)
                 ELSE SetMin({initial_score} \cup values)

\* Faulty variant: a lost board is scored as a drawn one.
minimax_at_loss_as_draw(bd, maximizing_player_symbol, is_maximizing, depth, deeper) ==
    LET winning_line == get_winning_line(bd)
    IN  IF winning_line # None
        THEN LET winner_symbol == bd[Board_WINNING_LINES[winning_line[1] + 1][1]]
             IN  IF winner_symbol = maximizing_player_symbol
                 THEN 100 - depth
                 ELSE 0
        ELSE IF is_full(bd)
        THEN 0
        ELSE LET initial_score == IF is_maximizing THEN -1000 ELSE 1000
                 current_symbol == IF is_maximizing
                                   THEN maximizing_player_symbol
                                   ELSE opposite(maximizing_player_symbol)
                 moves == get_possible_moves(bd)
                 values == { deeper[[bd EXCEPT ![moves[k].index] = current_symbol]]
                                   [<<maximizing_player_symbol, ~is_maximizing, depth + 1>>] :
                             k \in 1 .. Len(moves) }
             IN  IF is_maximizing
                 THEN SetMax({initial_score} \cup values)
                 ELSE SetMin({initial_score} \cup values)

\* One call of minimax.  The recursive calls, all on boards with one more
\* mark, are answered by `deeper`: deeper[b][<<s, m, d>>] is minimax(b, s, m, d).
\* The loop folds cmp::max (cmp::min) over the values from the initial score.
minimax_at(bd, maximizing_player_symbol, is_maximizing, depth, deeper) ==
    LET winning_line == get_winning_line(bd)
    IN  IF winning_line # None
        THEN LET winner_symbol == bd[Board_WINNING_LINES[winning_line[1] + 1][1]]
             IN  IF winner_symbol = maximizing_player_symbol
                 THEN 100 - depth
                 ELSE depth - 100
        ELSE IF is_full(bd)
        THEN 0
        ELSE LET initial_score == IF is_maximizing THEN -1000 ELSE 1000
                 current_symbol == IF is_maximizing
                                   THEN maximizing_player_symbol
                                   ELSE opposite(maximizing_player_symbol)
                 moves == get_possible_moves(bd)
                 values == { deeper[[bd EXCEPT ![moves[k].index] = current_symbol]]
                                   [<<maximizing_player_symbol, ~is_maximizing, depth + 1>>] :
                             k \in 1 .. Len(moves) }
             IN  IF is_maximizing
                 THEN SetMax({initial_score} \cup values)
                 ELSE SetMin({initial_score} \cup values)

\* The board with O on the cells os, X on the cells xs, the rest as Board::new.
Placed(os, xs) ==
    [i \in Indices |-> IF i \in os THEN CellO
                       ELSE IF i \in xs THEN CellX
                       ELSE AsciiNum(i + 1)]

\* The boards k alternating placements, O first, lead to.
PlayedBoards(k) ==
    UNION { { Placed(os, xs) :
                  xs \in {s \in SUBSET (Indices \ os) : Cardinality(s) = k \div 2} } :
            os \in {s \in SUBSET Indices : Cardinality(s) = k - (k \div 2)} }

\* The arguments minimax is called with, on a board of k marks, by a search
\* that calculate_best_move started depth plies above it.
CallsAt(k) == { <<SymbolOfCount(k - d), d % 2 = 0, d>> : d \in 1 .. k }

\* minimax on every board of k marks, from its values on the boards of k + 1.
MinimaxLayer(k, deeper) ==
    [b \in PlayedBoards(k) |->
        [a \in CallsAt(k) |-> minimax_at(b, a[1], a[2], a[3], deeper)]]

Minimax9 == MinimaxLayer(9, <<>>)
Minimax8 == MinimaxLayer(8, Minimax9)
Minimax7 == MinimaxLayer(7, Minimax8)
Minimax6 == MinimaxLayer(6, Minimax7)
Minimax5 == MinimaxLayer(5, Minimax6)
Minimax4 == MinimaxLayer(4, Minimax5)
Minimax3 == MinimaxLayer(3, Minimax4)
Minimax2 == MinimaxLayer(2, Minimax3)
Minimax1 == MinimaxLayer(1, Minimax2)

MinimaxLayers ==
    << Minimax1, Minimax2, Minimax3, Minimax4, Minimax5,
       Minimax6, Minimax7, Minimax8, Minimax9 >>

\* minimax(board, maximizing_player_symbol, is_maximizing, depth): the
\* recursion of the source, each position evaluated once.
minimax(bd, maximizing_player_symbol, is_maximizing, depth) ==
    MinimaxLayers[OccupiedCount(bd)][bd][<<maximizing_player_symbol, is_maximizing, depth>>]

\* Faulty variant: a move whose score equals best_eval is not pushed, so
\* only the first move of the greatest score is kept.
calculate_best_moves_first_only(bd) ==
    LET maximizing_player_symbol == current_player_symbol(bd)
        moves == get_possible_moves(bd)
        score(board_move) ==
            minimax([bd EXCEPT ![board_move.index] = maximizing_player_symbol],
                    maximizing_player_symbol, FALSE, 1)
        best_eval == SetMax({-1000} \cup { score(moves[k]) : k \in 1 .. Len(moves) })
        kept == SelectSeq(moves, LAMBDA board_move : score(board_move) = best_eval)
    IN  IF kept = <<>> THEN kept ELSE <<Head(kept)>>

\* Faulty variant: the loop runs over every cell, and keeps each.
calculate_best_moves_any_cell(bd) == MovesInOrder

\* Faulty variant: every possible move is kept, whatever its score.
calculate_best_moves_unranked(bd) == get_possible_moves(bd)

\* best_moves as it stands when calculate_best_move draws the random index:
\* the loop keeps the moves whose score equals the greatest score it met,
\* in the order of get_possible_moves, best_eval starting at -1000.
calculate_best_moves(bd) ==
    LET maximizing_player_symbol == current_player_symbol(bd)
        moves == get_possible_moves(bd)
        score(board_move) ==
            minimax([bd EXCEPT ![board_move.index] = maximizing_player_symbol],
                    maximizing_player_symbol, FALSE, 1)
        best_eval == SetMax({-1000} \cup { score(moves[k]) : k \in 1 .. Len(moves) })
    IN  SelectSeq(moves, LAMBDA board_move : score(board_move) = best_eval)

\* calculate_best_moves on every board alternating placements lead to, each
\* position evaluated once.
BestMoves ==
    [cnt \in 0 .. 9 |-> [b \in PlayedBoards(cnt) |-> calculate_best_moves(b)]]

\* ------------------------------------------------------------ game.rs

\* The table of game.rs; line i of the source is Game_WINNING_LINES[i + 1].
Game_WINNING_LINES ==
    << <<0, 3, 6>>, <<1, 4, 7>>, <<2, 5, 8>>,
       <<0, 1, 2>>, <<3, 4, 5>>, <<6, 7, 8>>,
       <<0, 4, 8>>, <<2, 4, 6>> >>

\* The annotation take_turn passes after an answer naming an occupied cell.
CellNotEmpty == "this cell is not empty"

\* The two names ui.get_player_name returns in a session.
Player1Name == "Player1"
Player2Name == "Player2"

\* TicTacToe::create_players: the pairs of players a Game is built with.
PlayerPairs ==
    { <<Human(Player1Name), Human(Player2Name)>>,
      <<Human(Player1Name), CPU>>,
      <<CPU, Human(Player2Name)>>,
      <<CPU, CPU>> }

\* Faulty variant: every move passes the check.
Game_is_valid_move_always(bd, player_move) == TRUE

Game_is_valid_move(bd, player_move) == IsEmpty(bd[player_move.index])

\* Faulty variant: the two marks are exchanged.
current_player_make_move_exchanged(bd, cur, player_move) ==
    [bd EXCEPT ![player_move.index] = IF cur = 0 THEN CellX ELSE CellO]

\* The board after current_player_make_move, cur being self.current_player.
current_player_make_move(bd, cur, player_move) ==
    [bd EXCEPT ![player_move.index] = IF cur = 0 THEN CellO ELSE CellX]

\* Faulty variant: the name of the other player is reported.
winner_name_other(ps, winner) ==
    IF ps[2 - winner][1] = "Human" THEN ps[2 - winner][2] ELSE "CPU"

\* The name check_if_over reports for the player at index winner.
winner_name(ps, winner) ==
    IF ps[winner + 1][1] = "Human" THEN ps[winner + 1][2] ELSE "CPU"

\* The for loop of check_if_over from line index on: Some(state) when an
\* iteration assigns the state and returns, None when the loop runs out.
RECURSIVE check_lines_from(_, _, _)
check_lines_from(bd, ps, index) ==
    IF index > 7 THEN None
    ELSE LET cell_triplet == Game_WINNING_LINES[index + 1]
             c1 == bd[cell_triplet[1]]
             c2 == bd[cell_triplet[2]]
             c3 == bd[cell_triplet[3]]
         IN  IF c1 = c2 /\ c1 = c3
             THEN IF c1 = CellO
                  THEN Some(Finished(PlayerWon(winner_name(ps, 0), index)))
                  ELSE IF c1 = CellX
                  THEN Some(Finished(PlayerWon(winner_name(ps, 1), index)))
                  ELSE check_lines_from(bd, ps, index + 1)
             ELSE check_lines_from(bd, ps, index + 1)

\* Faulty variant: the full board is not looked at.
check_if_over_lines_only(bd, ps, gs) ==
    LET won == check_lines_from(bd, ps, 0)
    IN  IF won # None THEN won[1] ELSE gs

\* Faulty variant: the full board is looked at before the lines.
check_if_over_full_first(bd, ps, gs) ==
    LET won == check_lines_from(bd, ps, 0)
        board_is_full == ~ \E i \in Indices : IsEmpty(bd[i])
    IN  IF board_is_full THEN Finished(Draw)
        ELSE IF won # None THEN won[1]
        ELSE gs

\* The game state check_if_over leaves, gs being the state it found.
check_if_over(bd, ps, gs) ==
    LET won == check_lines_from(bd, ps, 0)
        board_is_full == ~ \E i \in Indices : IsEmpty(bd[i])
    IN  IF won # None THEN won[1]
        ELSE IF board_is_full THEN Finished(Draw)
        ELSE gs

\* The moves Player::get_move can return: any of the nine for a Human (the
\* answer of ui.get_move), any element of best_moves for the CPU.
get_move_results(player, bd) ==
    IF player[1] = "Human"
    THEN {MovesInOrder[k] : k \in 1 .. 9}
    ELSE LET best_moves == BestMoves[OccupiedCount(bd)][bd]
         IN  {best_moves[k] : k \in 1 .. Len(best_moves)}

VARIABLES
    board,              \* Game.board
    players,            \* Game.players
    current_player,     \* Game.current_player
    game_state,         \* Game.game_state
    pc,                 \* where Game::start stands; "idle" when no call runs
    error_message,      \* take_turn's local error_message
    turn_requests,      \* get_move calls made by the running take_turn
    request_annotation, \* additional_message of the latest get_move call
    player_move,        \* the move the latest get_move call returned
    applied_moves,      \* calls of current_player_make_move so far
    start_calls,        \* calls of Game::start so far
    update_board_calls, \* calls of Ui::update_board so far
    ui_board,           \* the board of the latest Ui::update_board call
    notify_result_calls,\* calls of Ui::notify_result so far
    fn_call,            \* a function called on its own: its name and arguments
    fn_result,          \* what that call came to: None while it has not run
    scores,             \* TicTacToe.scores
    update_scores_calls,\* calls of Ui::update_scores so far
    ui_scores           \* the two scores of the latest Ui::update_scores call

game_vars == <<board, players, current_player, game_state>>
turn_vars == <<error_message, turn_requests, request_annotation, player_move>>
ui_vars == <<update_board_calls, ui_board, notify_result_calls>>
fn_vars == <<fn_call, fn_result>>
app_vars == <<scores, update_scores_calls, ui_scores>>
vars == <<game_vars, pc, turn_vars, applied_moves, start_calls, ui_vars, fn_vars, app_vars>>

\* Game::new, for each pair of players the application builds.
Init ==
    /\ board = Board_new
    /\ players \in PlayerPairs
    /\ current_player = 0
    /\ game_state = NotStarted
    /\ pc = "idle"
    /\ error_message = None
    /\ turn_requests = 0
    /\ request_annotation = None
    /\ player_move = None
    /\ applied_moves = 0
    /\ start_calls = 0
    /\ update_board_calls = 0
    /\ ui_board = None
    /\ notify_result_calls = 0
    /\ fn_call = None
    /\ fn_result = None
    /\ scores = <<0, 0>>
    /\ update_scores_calls = 0
    /\ ui_scores = None

\* Faulty variant: announce_result is called outside the test of the state.
Start_always_announces ==
    /\ pc = "idle"
    /\ start_calls < MaxStarts
    /\ start_calls' = start_calls + 1
    /\ IF game_state = NotStarted
       THEN /\ game_state' = Ongoing
            /\ pc' = "while"
       ELSE /\ game_state' = game_state
            /\ pc' = "announce_result"
    /\ UNCHANGED <<fn_vars, app_vars, board, players, current_player, turn_vars, applied_moves, ui_vars>>

\* Faulty variant: the state is not tested.
Start_untested ==
    /\ pc = "idle"
    /\ start_calls < MaxStarts
    /\ start_calls' = start_calls + 1
    /\ game_state' = Ongoing
    /\ pc' = "while"
    /\ UNCHANGED <<fn_vars, app_vars, board, players, current_player, turn_vars, applied_moves, ui_vars>>

\* Game::start is called: it enters the loop from NotStarted and returns at
\* once otherwise.
Start ==
    /\ pc = "idle"
    /\ start_calls < MaxStarts
    /\ start_calls' = start_calls + 1
    /\ IF game_state = NotStarted
       THEN /\ game_state' = Ongoing
            /\ pc' = "while"
       ELSE /\ game_state' = game_state
            /\ pc' = "idle"
    /\ UNCHANGED <<fn_vars, app_vars, board, players, current_player, turn_vars, applied_moves, ui_vars>>

\* The test of the while loop of start.
WhileTest ==
    /\ pc = "while"
    /\ pc' = IF game_state = Ongoing THEN "take_turn" ELSE "announce_result"
    /\ UNCHANGED <<fn_vars, app_vars, game_vars, turn_vars, applied_moves, start_calls, ui_vars>>

\* take_turn up to its loop: the board is shown, error_message is None.
TakeTurn ==
    /\ pc = "take_turn"
    /\ update_board_calls' = update_board_calls + 1
    /\ ui_board' = Some(board)
    /\ error_message' = None
    /\ turn_requests' = 0
    /\ pc' = "get_move"
    /\ UNCHANGED <<fn_vars, app_vars, game_vars, request_annotation, player_move, applied_moves,
                   start_calls, notify_result_calls>>

\* Mutation: an answer naming an occupied cell ends the loop.
AnswerMove_gives_up(mv) ==
    /\ request_annotation' = error_message
    /\ turn_requests' = turn_requests + 1
    /\ player_move' = Some(mv)
    /\ IF Game_is_valid_move(board, mv)
       THEN /\ board' = current_player_make_move(board, current_player, mv)
            /\ applied_moves' = applied_moves + 1
            /\ error_message' = error_message
            /\ pc' = "check_if_over"
       ELSE /\ turn_requests + 1 < MaxRequests
            /\ board' = board
            /\ applied_moves' = applied_moves
            /\ error_message' = Some(CellNotEmpty)
            /\ pc' = "check_if_over"
    /\ UNCHANGED <<fn_vars, app_vars, players, current_player, game_state, start_calls, ui_vars>>

\* One iteration of the loop of take_turn, get_move returning mv: a move on
\* an Empty cell ends the loop and is applied, any other sets the annotation.
AnswerMove(mv) ==
    /\ request_annotation' = error_message
    /\ turn_requests' = turn_requests + 1
    /\ player_move' = Some(mv)
    /\ IF Game_is_valid_move(board, mv)
       THEN /\ board' = current_player_make_move(board, current_player, mv)
            /\ applied_moves' = applied_moves + 1
            /\ error_message' = error_message
            /\ pc' = "check_if_over"
       ELSE /\ turn_requests + 1 < MaxRequests
            /\ board' = board
            /\ applied_moves' = applied_moves
            /\ error_message' = Some(CellNotEmpty)
            /\ pc' = "get_move"
    /\ UNCHANGED <<fn_vars, app_vars, players, current_player, game_state, start_calls, ui_vars>>

\* The current player is a Human: ui.get_move answers with any move.
HumanMove ==
    /\ pc = "get_move"
    /\ players[current_player + 1][1] = "Human"
    /\ \E mv \in get_move_results(players[current_player + 1], board) : AnswerMove(mv)

\* The current player is the CPU: calculate_best_move draws one of best_moves;
\* on an empty best_moves the draw panics.
CpuMove ==
    /\ pc = "get_move"
    /\ players[current_player + 1] = CPU
    /\ IF get_move_results(CPU, board) = {}
       THEN /\ pc' = "panicked"
            /\ UNCHANGED <<fn_vars, app_vars, game_vars, turn_vars, applied_moves, start_calls, ui_vars>>
       ELSE \E mv \in get_move_results(CPU, board) : AnswerMove(mv)

\* Mutation: current_player is left as it is.
CheckIfOver_no_flip ==
    /\ pc = "check_if_over"
    /\ game_state' = check_if_over(board, players, game_state)
    /\ pc' = "while"
    /\ UNCHANGED <<fn_vars, app_vars, board, players, current_player, turn_vars, applied_moves,
                   start_calls, ui_vars>>

\* Mutation: current_player is flipped only when the game goes on.
CheckIfOver_flip_if_ongoing ==
    /\ pc = "check_if_over"
    /\ game_state' = check_if_over(board, players, game_state)
    /\ current_player' = IF game_state' = Ongoing
                          THEN (IF current_player = 0 THEN 1 ELSE 0)
                          ELSE current_player
    /\ pc' = "while"
    /\ UNCHANGED <<fn_vars, app_vars, board, players, turn_vars, applied_moves, start_calls, ui_vars>>

\* check_if_over, then the flip of current_player that ends the loop body.
CheckIfOver ==
    /\ pc = "check_if_over"
    /\ game_state' = check_if_over(board, players, game_state)
    /\ current_player' = IF current_player = 0 THEN 1 ELSE 0
    /\ pc' = "while"
    /\ UNCHANGED <<fn_vars, app_vars, board, players, turn_vars, applied_moves, start_calls, ui_vars>>

\* Mutation: the final board is not shown.
AnnounceResult_no_update ==
    /\ pc = "announce_result"
    /\ pc' = "notify_result"
    /\ UNCHANGED <<fn_vars, app_vars, game_vars, turn_vars, applied_moves, start_calls, ui_vars>>

\* announce_result: the final board is shown,
AnnounceResult ==
    /\ pc = "announce_result"
    /\ update_board_calls' = update_board_calls + 1
    /\ ui_board' = Some(board)
    /\ pc' = "notify_result"
    /\ UNCHANGED <<fn_vars, app_vars, game_vars, turn_vars, applied_moves, start_calls, notify_result_calls>>

\* then the result is notified if the state is Finished, and start returns.
NotifyResult ==
    /\ pc = "notify_result"
    /\ notify_result_calls' =
           IF IsFinished(game_state) THEN notify_result_calls + 1 ELSE notify_result_calls
    /\ pc' = "idle"
    /\ UNCHANGED <<fn_vars, app_vars, game_vars, turn_vars, applied_moves, start_calls,
                   update_board_calls, ui_board>>

Next ==
    \/ Start
    \/ WhileTest
    \/ TakeTurn
    \/ HumanMove
    \/ CpuMove
    \/ CheckIfOver
    \/ AnnounceResult
    \/ NotifyResult

Spec == Init /\ [][Next]_vars

\* A further iteration of the loop of take_turn once MaxRequests - 1 answers
\* were refused: the answer names an occupied cell again and the loop asks
\* again.  turn_requests stays at MaxRequests - 1, which then stands for that
\* many requests or more.
RefusedAgain ==
    /\ pc = "get_move"
    /\ players[current_player + 1][1] = "Human"
    /\ turn_requests + 1 >= MaxRequests
    /\ \E mv \in get_move_results(players[current_player + 1], board) :
           /\ ~Game_is_valid_move(board, mv)
           /\ player_move' = Some(mv)
    /\ request_annotation' = error_message
    /\ error_message' = Some(CellNotEmpty)
    /\ UNCHANGED <<fn_vars, app_vars, game_vars, pc, turn_requests, applied_moves, start_calls,
                   ui_vars>>

NextRetry == Next \/ RefusedAgain

\* A match in which a human player may be refused any number of times.
SpecRetry == Init /\ [][NextRetry]_vars

\* The states the tests of game.rs put a fresh Game in before calling start.
PresetStates ==
    { NotStarted, Ongoing, Finished(Draw), Finished(PlayerWon(Player1Name, 0)) }

InitPreset ==
    /\ board = Board_new
    /\ players \in PlayerPairs
    /\ current_player = 0
    /\ game_state \in PresetStates
    /\ pc = "idle"
    /\ error_message = None
    /\ turn_requests = 0
    /\ request_annotation = None
    /\ player_move = None
    /\ applied_moves = 0
    /\ start_calls = 0
    /\ update_board_calls = 0
    /\ ui_board = None
    /\ notify_result_calls = 0
    /\ fn_call = None
    /\ fn_result = None
    /\ scores = <<0, 0>>
    /\ update_scores_calls = 0
    /\ ui_scores = None

\* Game::start called on a Game whose state field was preset.
SpecPreset == InitPreset /\ [][Next]_vars

\* A Human's answer that names an Empty cell.
HumanValidMove ==
    /\ pc = "get_move"
    /\ players[current_player + 1][1] = "Human"
    /\ \E mv \in get_move_results(players[current_player + 1], board) :
           Game_is_valid_move(board, mv) /\ AnswerMove(mv)

\* The steps start takes by itself, once called.
Internal ==
    WhileTest \/ TakeTurn \/ CpuMove \/ CheckIfOver \/ AnnounceResult \/ NotifyResult

\* start runs on while it can, and every move request is eventually
\* answered with a move on an Empty cell.
LiveSpec == Init /\ [][Next]_vars /\ WF_vars(Internal) /\ WF_vars(HumanValidMove)

\* ------------------------------------------------------------ claims

HasLine(bd) == \E i \in 1 .. 8 : \E m \in {CellO, CellX} :
    \A k \in 1 .. 3 : bd[Game_WINNING_LINES[i][k]] = m

HasEmpty(bd) == \E i \in Indices : IsEmpty(bd[i])

MarkOfPlayer(idx) == IF idx = 0 THEN CellO ELSE CellX

DisplayName(player) == IF player = CPU THEN "CPU" ELSE player[2]

OneCpu == players \in { <<Human(Player1Name), CPU>>, <<CPU, Human(Player2Name)>> }

CpuIndex == IF players[1] = CPU THEN 0 ELSE 1

\* C1: a match between the CPU and a player answering with any moves never
\* finishes with a win of the other player: the result is Draw, or PlayerWon
\* with the CPU's name on a line of the CPU's mark.
C1_CpuUndefeated ==
    (OneCpu /\ IsFinished(game_state)) =>
        \/ game_state[2] = Draw
        \/ /\ game_state[2][1] = "PlayerWon"
           /\ game_state[2][2] = "CPU"
           /\ \A k \in 1 .. 3 :
                  board[Game_WINNING_LINES[game_state[2][3] + 1][k]] = MarkOfPlayer(CpuIndex)

C1_Witness ==
    /\ players = <<CPU, Human(Player2Name)>>
    /\ pc = "idle"
    /\ IsFinished(game_state)
    /\ game_state[2][1] = "PlayerWon"

\* C2: a match of two CPU players always finishes, and with Draw, whatever
\* the tie-breaks.
C2_CpuVsCpuDraw ==
    /\ [](players = <<CPU, CPU>> /\ IsFinished(game_state) => game_state[2] = Draw)
    /\ ((players = <<CPU, CPU>> /\ game_state = Ongoing)
            ~> (game_state = Finished(Draw) /\ pc = "idle"))

C2_Witness ==
    /\ players = <<CPU, CPU>>
    /\ pc = "idle"
    /\ game_state = Finished(Draw)
    /\ applied_moves = 9

\* C3: a started match reaches Finished when every request is eventually
\* answered with a move on an Empty cell; no more than 9 moves are applied and
\* no turn is taken on a board with a completed line or without Empty cell.
C3_MatchTerminates ==
    /\ (game_state = Ongoing ~> IsFinished(game_state))
    /\ [](applied_moves <= 9)
    /\ [](pc \in {"take_turn", "get_move"} => ~HasLine(board) /\ HasEmpty(board))

C3_Witness ==
    /\ IsFinished(game_state)
    /\ applied_moves = 9
    /\ pc = "idle"

\* C4: notify_result is called only in the Finished state, once per call of
\* announce_result; once the match is complete it has been called exactly
\* once, however many calls of start follow.
C4_NotifiedOnce ==
    /\ [][notify_result_calls' # notify_result_calls =>
            /\ notify_result_calls' = notify_result_calls + 1
            /\ IsFinished(game_state)]_vars
    /\ [](notify_result_calls <= 1)
    /\ [](pc = "idle" /\ IsFinished(game_state) => notify_result_calls = 1)
    /\ [](~IsFinished(game_state) => notify_result_calls = 0)

C4_Witness ==
    /\ pc = "idle"
    /\ IsFinished(game_state)
    /\ start_calls = 3
    /\ notify_result_calls = 1

\* C5: a call of start in a state other than NotStarted returns at once: no
\* move is requested, board, current player and state keep their values and
\* neither update_board nor notify_result is called.
C5_StartNoOp ==
    [][(pc = "idle" /\ game_state # NotStarted /\ start_calls' # start_calls) =>
          /\ pc' = "idle"
          /\ board' = board
          /\ current_player' = current_player
          /\ game_state' = game_state
          /\ turn_requests' = turn_requests
          /\ request_annotation' = request_annotation
          /\ player_move' = player_move
          /\ applied_moves' = applied_moves
          /\ update_board_calls' = update_board_calls
          /\ notify_result_calls' = notify_result_calls]_vars

C5_Witness ==
    /\ pc = "idle"
    /\ game_state = Ongoing
    /\ start_calls = 2

StateRank(gs) ==
    IF gs = NotStarted THEN 0 ELSE IF gs = Ongoing THEN 1 ELSE 2

\* C6: the game state moves only from NotStarted to Ongoing and from Ongoing
\* to Finished(result); a Finished state and its result never change.
C6_StateMonotone ==
    [][/\ game_state' # game_state =>
              StateRank(game_state') = StateRank(game_state) + 1
       /\ IsFinished(game_state) => game_state' = game_state]_vars

C6_Witness ==
    /\ IsFinished(game_state)
    /\ game_state[2][1] = "PlayerWon"
    /\ start_calls = 2

\* C7: on a board with a line filled by one mark check_if_over sets
\* Finished(PlayerWon(name, line)), line being such a line and name the name
\* of player 0 for O, of player 1 for X ("CPU" for a CPU player); on a board
\* with no such line and an Empty cell it leaves the state Ongoing.
C7_WinnerReported ==
    [][pc = "check_if_over" =>
          /\ HasLine(board) =>
                \E i \in 0 .. 7 : \E w \in {0, 1} :
                    /\ \A k \in 1 .. 3 :
                           board[Game_WINNING_LINES[i + 1][k]] = MarkOfPlayer(w)
                    /\ game_state' =
                           Finished(PlayerWon(DisplayName(players[w + 1]), i))
          /\ (~HasLine(board) /\ HasEmpty(board)) =>
                (game_state = Ongoing /\ game_state' = Ongoing)]_vars

C7_Witness ==
    /\ pc = "while"
    /\ players = <<Human(Player1Name), CPU>>
    /\ IsFinished(game_state)
    /\ game_state[2][1] = "PlayerWon"
    /\ game_state[2][2] = "CPU"

\* C8: check_if_over sets Finished(Draw) exactly when the board has no Empty
\* cell and no completed line; a full board with a completed line gives
\* PlayerWon.
C8_DrawIffFullNoLine ==
    [][pc = "check_if_over" =>
          /\ game_state' = Finished(Draw) <=> (~HasEmpty(board) /\ ~HasLine(board))
          /\ (~HasEmpty(board) /\ HasLine(board)) =>
                (IsFinished(game_state') /\ game_state'[2][1] = "PlayerWon")]_vars

C8_Witness ==
    /\ pc = "while"
    /\ applied_moves = 9
    /\ IsFinished(game_state)
    /\ game_state[2][1] = "PlayerWon"

\* C9: an applied move puts O for player index 0 and X for player index 1 on
\* the cell of the move and changes no other cell.
C9_MovePlacesMark ==
    [][applied_moves' # applied_moves =>
          /\ player_move' # None
          /\ board'[player_move'[1].index] = (IF current_player = 0 THEN CellO ELSE CellX)
          /\ \A j \in Indices : j # player_move'[1].index => board'[j] = board[j]]_vars

C9_Witness ==
    /\ pc = "check_if_over"
    /\ current_player = 1
    /\ applied_moves = 4
    /\ board[player_move[1].index] = CellX

\* C10: in take_turn the first request carries no annotation and every later
\* one the "cell not empty" annotation; an answer naming an occupied cell
\* leaves the board unchanged and the same player is asked again; the turn
\* ends exactly on an answer naming an Empty cell, and that move is applied.
C10_RetryOnOccupied ==
    [][(pc = "get_move" /\ pc' # "panicked") =>
          /\ turn_requests' = turn_requests + 1
          /\ request_annotation' =
                 (IF turn_requests = 0 THEN None ELSE Some(CellNotEmpty))
          /\ IF IsEmpty(board[player_move'[1].index])
             THEN /\ pc' = "check_if_over"
                  /\ board' = [board EXCEPT ![player_move'[1].index] =
                                   MarkOfPlayer(current_player)]
             ELSE /\ pc' = "get_move"
                  /\ board' = board
                  /\ current_player' = current_player
                  /\ applied_moves' = applied_moves]_vars

C10_Witness ==
    /\ pc = "check_if_over"
    /\ turn_requests = 3
    /\ request_annotation = Some(CellNotEmpty)
    /\ applied_moves = 3

\* The cells holding O or X.
Marked(bd) == {i \in Indices : bd[i] \in {CellO, CellX}}

\* C11: a cell holding O or X holds that mark in every later state, and the
\* cells holding a mark are exactly the cells of the applied moves: a step
\* that applies a move adds the cell of that move, any other step adds none.
C11_MarksPermanent ==
    /\ [][/\ \A i \in Indices :
                 board[i] \in {CellO, CellX} => board'[i] = board[i]
           /\ Marked(board') =
                 (IF applied_moves' # applied_moves
                  THEN Marked(board) \cup {player_move'[1].index}
                  ELSE Marked(board))]_vars
    /\ [](Cardinality(Marked(board)) = applied_moves)

C11_Witness ==
    /\ pc = "get_move"
    /\ turn_requests = 1
    /\ request_annotation = None
    /\ ~IsEmpty(board[player_move[1].index])
    /\ applied_moves = 5
    /\ Cardinality(Marked(board)) = 5

\* ------------------------------------------------------------ calls of single functions

\* Greatest argument BoardMove::try_new is called with.
MaxNum == 12

\* The boards a function is called with: those alternating placements lead
\* to, O first, completed lines and full boards included.
FnBoards == UNION { PlayedBoards(cnt) : cnt \in 0 .. 9 }

\* A board on which minimax returns without searching.
IsTerminal(bd) == get_winning_line(bd) # None \/ is_full(bd)

\* The arguments of a call of minimax: on a terminal board any symbol,
\* side and depth, elsewhere those a search reaches the board with.
IsMinimaxCall(bd, maximizing_player_symbol, is_maximizing, depth) ==
    /\ bd # Board_new
    /\ \/ IsTerminal(bd)
       \/ <<maximizing_player_symbol, is_maximizing, depth>> \in CallsAt(OccupiedCount(bd))

FnCalls ==
    {<<"calculate_best_move", b>> : b \in FnBoards}
    \cup {c \in {"minimax"} \X FnBoards \X {CellO, CellX} \X BOOLEAN \X (1 .. 9) :
              IsMinimaxCall(c[2], c[3], c[4], c[5])}
    \cup {<<"try_new", num>> : num \in 0 .. MaxNum}

InitFn ==
    /\ board = Board_new
    /\ players = <<CPU, CPU>>
    /\ current_player = 0
    /\ game_state = NotStarted
    /\ pc = "idle"
    /\ error_message = None
    /\ turn_requests = 0
    /\ request_annotation = None
    /\ player_move = None
    /\ applied_moves = 0
    /\ start_calls = 0
    /\ update_board_calls = 0
    /\ ui_board = None
    /\ notify_result_calls = 0
    /\ fn_call \in FnCalls
    /\ fn_result = None
    /\ scores = <<0, 0>>
    /\ update_scores_calls = 0
    /\ ui_scores = None

\* Mutation: the first placement of the loop is made on the board itself.
CalculateBestMove_marks_board ==
    /\ fn_call[1] = "calculate_best_move"
    /\ fn_result = None
    /\ LET best_moves == BestMoves[OccupiedCount(fn_call[2])][fn_call[2]]
           moves == get_possible_moves(fn_call[2])
       IN  /\ IF best_moves = <<>>
              THEN fn_result' = <<"panic">>
              ELSE \E random_index \in 0 .. (Len(best_moves) - 1) :
                       fn_result' = <<"return", best_moves[random_index + 1]>>
           /\ fn_call' = IF moves = <<>>
                         THEN fn_call
                         ELSE <<fn_call[1],
                                [fn_call[2] EXCEPT ![moves[1].index] =
                                    current_player_symbol(fn_call[2])]>>
    /\ UNCHANGED <<app_vars, game_vars, pc, turn_vars, applied_moves, start_calls, ui_vars>>

\* Player::calculate_best_move(board): an element of best_moves at any
\* index of the range, a panic when the range is empty.
CalculateBestMove ==
    /\ fn_call[1] = "calculate_best_move"
    /\ fn_result = None
    /\ LET best_moves == BestMoves[OccupiedCount(fn_call[2])][fn_call[2]]
       IN  IF best_moves = <<>>
           THEN fn_result' = <<"panic">>
           ELSE \E random_index \in 0 .. (Len(best_moves) - 1) :
                    fn_result' = <<"return", best_moves[random_index + 1]>>
    /\ UNCHANGED <<fn_call, app_vars, game_vars, pc, turn_vars, applied_moves, start_calls, ui_vars>>

\* Player::minimax(board, maximizing_player_symbol, is_maximizing, depth).
Minimax ==
    /\ fn_call[1] = "minimax"
    /\ fn_result = None
    /\ LET cnt == OccupiedCount(fn_call[2])
           deeper == IF cnt = 9 THEN <<>> ELSE MinimaxLayers[cnt + 1]
       IN  fn_result' = <<"return",
               minimax_at(fn_call[2], fn_call[3], fn_call[4], fn_call[5], deeper)>>
    /\ UNCHANGED <<fn_call, app_vars, game_vars, pc, turn_vars, applied_moves, start_calls, ui_vars>>

\* BoardMove::try_new(num).
TryNew ==
    /\ fn_call[1] = "try_new"
    /\ fn_result = None
    /\ fn_result' = <<"return", try_new(fn_call[2])>>
    /\ UNCHANGED <<fn_call, app_vars, game_vars, pc, turn_vars, applied_moves, start_calls, ui_vars>>

NextFn == CalculateBestMove \/ Minimax \/ TryNew

\* One call of one function, on any of its inputs.
SpecFn == InitFn /\ [][NextFn]_vars

\* ------------------------------------------------------------ claims on single functions

\* calculate_best_move was called on bd and has returned or panicked.
BestMoveCalled == fn_call[1] = "calculate_best_move" /\ fn_result # None

\* Placing mark on the Empty cell i of bd completes a line of that mark.
CompletesLine(bd, i, mark) ==
    /\ IsEmpty(bd[i])
    /\ \E l \in 1 .. 8 :
           /\ i \in {Board_WINNING_LINES[l][k] : k \in 1 .. 3}
           /\ \A k \in 1 .. 3 :
                  [bd EXCEPT ![i] = mark][Board_WINNING_LINES[l][k]] = mark

\* C12: on a board with an Empty cell calculate_best_move returns a move,
\* and the cell of that move is Empty on the board (is_valid_move is true).
C12_BestMoveIsValid ==
    (BestMoveCalled /\ HasEmpty(fn_call[2])) =>
        /\ fn_result[1] = "return"
        /\ Board_is_valid_move(fn_call[2], fn_result[2])
        /\ IsEmpty(fn_call[2][fn_result[2].index])

C12_Witness ==
    /\ BestMoveCalled
    /\ OccupiedCount(fn_call[2]) = 4
    /\ fn_result[1] = "return"
    /\ fn_result[2].index = 8

\* C13: on a board with exactly one Empty cell and no completed line
\* calculate_best_move returns the move of that cell.
C13_LastFreeCell ==
    (/\ BestMoveCalled
     /\ OccupiedCount(fn_call[2]) = 8
     /\ ~HasLine(fn_call[2])) =>
        /\ fn_result[1] = "return"
        /\ \A i \in Indices : IsEmpty(fn_call[2][i]) => fn_result[2] = [index |-> i]

C13_Witness ==
    /\ BestMoveCalled
    /\ OccupiedCount(fn_call[2]) = 8
    /\ ~HasLine(fn_call[2])
    /\ IsEmpty(fn_call[2][1])
    /\ fn_result = <<"return", [index |-> 1]>>

\* C14: on a board without completed line where the mark to move (by the
\* parity of the marks) completes a line with one move, every move
\* calculate_best_move returns completes a line of that mark at once.
C14_WinsAtOnce ==
    (/\ BestMoveCalled
     /\ ~HasLine(fn_call[2])
     /\ \E i \in Indices :
            CompletesLine(fn_call[2], i, current_player_symbol(fn_call[2]))) =>
        /\ fn_result[1] = "return"
        /\ CompletesLine(fn_call[2], fn_result[2].index,
                         current_player_symbol(fn_call[2]))

C14_Witness ==
    /\ BestMoveCalled
    /\ fn_call[2] = Placed({0, 1}, {3, 6})
    /\ fn_result = <<"return", [index |-> 2]>>

\* The mark to move on bd has no move completing a line, and the cells in
\* Threats(bd) each complete a line of the other mark.
Threats(bd) ==
    {i \in Indices : CompletesLine(bd, i, opposite(current_player_symbol(bd)))}

MustBlock(bd) ==
    /\ ~HasLine(bd)
    /\ ~ \E i \in Indices : CompletesLine(bd, i, current_player_symbol(bd))
    /\ Threats(bd) # {}

\* C15 as stated: whenever the mark to move cannot complete a line and the
\* other mark could on its next ply, the returned move is on a cell that
\* completes a line of the other mark.
C15_AlwaysBlocks ==
    (BestMoveCalled /\ MustBlock(fn_call[2])) =>
        /\ fn_result[1] = "return"
        /\ fn_result[2].index \in Threats(fn_call[2])

\* C15: when the mark to move cannot complete a line and exactly one cell
\* completes a line of the other mark, calculate_best_move returns the move
\* of that cell, whether or not the position is lost all the same.
C15_BlocksSingleThreat ==
    (BestMoveCalled /\ MustBlock(fn_call[2])
                    /\ Cardinality(Threats(fn_call[2])) = 1) =>
        /\ fn_result[1] = "return"
        /\ fn_result[2].index \in Threats(fn_call[2])

C15_Witness ==
    /\ BestMoveCalled
    /\ fn_call[2] = Placed({0, 3}, {2})
    /\ Threats(fn_call[2]) = {6}
    /\ fn_result = <<"return", [index |-> 6]>>

\* The board [O,_,X,O,O,_,_,_,X].
ExampleBoard == Placed({0, 3, 4}, {2, 8})

\* C16 as stated: on the example board the mark to move is O and the one
\* move returned is index 5, completing the line 3-4-5 of O.
C16_ExampleOToMove ==
    (BestMoveCalled /\ fn_call[2] = ExampleBoard) =>
        /\ current_player_symbol(fn_call[2]) = CellO
        /\ fn_result = <<"return", [index |-> 5]>>

\* C16: on the example board the mark to move is X (five marks), and the
\* one move returned is index 5, which completes the line 2-5-8 of X.
C16_ExampleXToMove ==
    (BestMoveCalled /\ fn_call[2] = ExampleBoard) =>
        /\ current_player_symbol(fn_call[2]) = CellX
        /\ fn_result = <<"return", [index |-> 5]>>
        /\ CompletesLine(fn_call[2], 5, CellX)
        /\ \A k \in 1 .. 3 :
               [fn_call[2] EXCEPT ![5] = CellX][Board_WINNING_LINES[3][k]] = CellX

C16_Witness ==
    /\ BestMoveCalled
    /\ fn_call[2] = ExampleBoard
    /\ fn_result[1] = "return"
    /\ unwrap(try_new(6)) = fn_result[2]

\* C17: calculate_best_move called on a board without Empty cell panics and
\* returns no move.
C17_PanicsOnFullBoard ==
    (BestMoveCalled /\ ~HasEmpty(fn_call[2])) => fn_result = <<"panic">>

C17_Witness ==
    /\ BestMoveCalled
    /\ fn_call[2] = Placed({0, 1, 5, 6, 8}, {2, 3, 4, 7})
    /\ is_full(fn_call[2])
    /\ fn_result = <<"panic">>

\* The score calculate_best_move gives the move on the Empty cell i of bd:
\* minimax of the board after the move, at depth 1, the opponent to move.
MoveScore(bd, i) ==
    minimax([bd EXCEPT ![i] = current_player_symbol(bd)],
            current_player_symbol(bd), FALSE, 1)

\* The move on cell i is legal on bd and no legal move scores higher.
IsTopMove(bd, i) ==
    /\ IsEmpty(bd[i])
    /\ \A j \in Indices : IsEmpty(bd[j]) => MoveScore(bd, j) <= MoveScore(bd, i)

\* C18: on a board with a legal move, a returned move is legal and of the
\* greatest score among the legal moves, and before the draw every legal
\* move of the greatest score is one the call can return.
C18_ReturnsExactlyTopMoves ==
    (fn_call[1] = "calculate_best_move" /\ HasEmpty(fn_call[2])) =>
        /\ fn_result # None =>
               (fn_result[1] = "return" /\ IsTopMove(fn_call[2], fn_result[2].index))
        /\ fn_result = None =>
               \A i \in Indices :
                   IsTopMove(fn_call[2], i) =>
                       ENABLED (CalculateBestMove
                                /\ fn_result' = <<"return", [index |-> i]>>)

C18_Witness ==
    /\ BestMoveCalled
    /\ fn_call[2] = Placed({4}, {})
    /\ Cardinality({i \in Indices : IsTopMove(fn_call[2], i)}) = 4
    /\ fn_result = <<"return", [index |-> 6]>>

\* The marks that fill some line of bd.
LineMarks(bd) ==
    {m \in {CellO, CellX} :
        \E l \in 1 .. 8 : \A k \in 1 .. 3 : bd[Board_WINNING_LINES[l][k]] = m}

\* minimax of the terminal board of the call, at another depth.
ScoreAtDepth(depth) ==
    minimax_at(fn_call[2], fn_call[3], fn_call[4], depth, <<>>)

\* C19: on a terminal board minimax at depth d returns 100 - d when the
\* completed line holds the maximizing mark, d - 100 when it holds the other
\* mark and 0 on a full board without line; a win scores above 0 and above
\* the same win at any greater depth, a loss below 0 and below the same loss
\* at any greater depth.
C19_TerminalScores ==
    (fn_call[1] = "minimax" /\ fn_result # None /\ IsTerminal(fn_call[2])) =>
        LET bd == fn_call[2]
            depth == fn_call[5]
            score == fn_result[2]
        IN  /\ fn_result[1] = "return"
            /\ LineMarks(bd) = {fn_call[3]} =>
                   /\ score = 100 - depth
                   /\ score > 0
                   /\ \A d \in 1 .. 9 : depth < d => score > ScoreAtDepth(d)
            /\ LineMarks(bd) = {opposite(fn_call[3])} =>
                   /\ score = depth - 100
                   /\ score < 0
                   /\ \A d \in 1 .. 9 : depth < d => score < ScoreAtDepth(d)
            /\ LineMarks(bd) = {CellO, CellX} => score \in {100 - depth, depth - 100}
            /\ LineMarks(bd) = {} => score = 0

C19_Witness ==
    /\ fn_call[1] = "minimax"
    /\ fn_call[2] = Placed({0, 1, 2}, {3, 4})
    /\ fn_call[3] = CellX
    /\ fn_call[5] = 5
    /\ fn_result = <<"return", -95>>

\* C20: try_new(n) gives a move exactly when 1 <= n <= 9, the index of the
\* move being n - 1, within 0..8; for n = 0 and for n >= 10 it gives the
\* error and no move.
C20_TryNewRange ==
    (fn_call[1] = "try_new" /\ fn_result # None) =>
        LET num == fn_call[2]
            result == fn_result[2]
        IN  /\ fn_result[1] = "return"
            /\ result[1] = "Ok" <=> (1 <= num /\ num <= 9)
            /\ result[1] = "Ok" =>
                   /\ BoardMove_index(result[2]) = num - 1
                   /\ BoardMove_index(result[2]) \in 0 .. 8
            /\ (num = 0 \/ num >= 10) => result = <<"Err">>

C20_Witness ==
    /\ fn_call = <<"try_new", 9>>
    /\ fn_result = <<"return", <<"Ok", [index |-> 8]>>>>

\* ------------------------------------------------------------ calls of Board functions

\* Boards built by Board::from with every Empty cell labelled '0', the
\* marks in any number and place.
UnlabelledBoards == [Indices -> {CellO, CellX, AsciiNum(0)}]

\* The functions of one board argument that are called.
BoardFunctions == {"get_possible_moves", "get_winning_line"}

InitBoard ==
    /\ board = Board_new
    /\ players = <<CPU, CPU>>
    /\ current_player = 0
    /\ game_state = NotStarted
    /\ pc = "idle"
    /\ error_message = None
    /\ turn_requests = 0
    /\ request_annotation = None
    /\ player_move = None
    /\ applied_moves = 0
    /\ start_calls = 0
    /\ update_board_calls = 0
    /\ ui_board = None
    /\ notify_result_calls = 0
    /\ \/ fn_call = <<"Board::new">>
       \/ \E num \in 1 .. 9 : fn_call = <<"to_string", num>>
       \/ \E name \in BoardFunctions, b \in FnBoards : fn_call = <<name, b>>
       \/ \E name \in BoardFunctions, b \in UnlabelledBoards : fn_call = <<name, b>>
       \/ \E b \in FnBoards, caller \in {0, 1} :
              fn_call = <<"maximizing_player_symbol", b, caller>>
       \/ \E b \in UnlabelledBoards, caller \in {0, 1} :
              fn_call = <<"maximizing_player_symbol", b, caller>>
       \/ \E b \in UnlabelledBoards, k \in 1 .. 9 :
              fn_call = <<"is_valid_move", b, MovesInOrder[k]>>
       \/ \E b \in FnBoards, gs \in {NotStarted, Ongoing} :
              fn_call = <<"check_if_over", b, gs>>
       \/ \E b \in UnlabelledBoards, gs \in {NotStarted, Ongoing} :
              fn_call = <<"check_if_over", b, gs>>
    /\ fn_result = None
    /\ scores = <<0, 0>>
    /\ update_scores_calls = 0
    /\ ui_scores = None

\* What a call of a Board function leaves as it is.
BoardCallFrame ==
    UNCHANGED <<fn_call, app_vars, game_vars, pc, turn_vars, applied_moves, start_calls, ui_vars>>

\* Board::new()
BoardNew ==
    /\ fn_call[1] = "Board::new"
    /\ fn_result = None
    /\ fn_result' = <<"return", Board_new>>
    /\ BoardCallFrame

\* BoardMove::try_new(num).unwrap().to_string()
DisplayBoardMove ==
    /\ fn_call[1] = "to_string"
    /\ fn_result = None
    /\ fn_result' \in BoardMove_fmt(unwrap(try_new(fn_call[2])))
    /\ BoardCallFrame

\* Board::get_possible_moves
GetPossibleMoves ==
    /\ fn_call[1] = "get_possible_moves"
    /\ fn_result = None
    /\ fn_result' = <<"return", get_possible_moves(fn_call[2])>>
    /\ BoardCallFrame

\* Board::get_winning_line
GetWinningLine ==
    /\ fn_call[1] = "get_winning_line"
    /\ fn_result = None
    /\ fn_result' = <<"return", get_winning_line(fn_call[2])>>
    /\ BoardCallFrame

\* Mutation: the symbol is that of the calling player, O for the first and
\* X for the second.
MaximizingPlayerSymbol_of_caller ==
    /\ fn_call[1] = "maximizing_player_symbol"
    /\ fn_result = None
    /\ fn_result' = <<"return", IF fn_call[3] = 0 THEN CellO ELSE CellX>>
    /\ BoardCallFrame

\* The first statement of calculate_best_move, reached from get_move of the player of index
\* fn_call[3]; calculate_best_move has no self parameter.
MaximizingPlayerSymbol ==
    /\ fn_call[1] = "maximizing_player_symbol"
    /\ fn_result = None
    /\ fn_result' = <<"return", current_player_symbol(fn_call[2])>>
    /\ BoardCallFrame

\* Board::is_valid_move and Game::is_valid_move on the same board and move.
IsValidMove ==
    /\ fn_call[1] = "is_valid_move"
    /\ fn_result = None
    /\ fn_result' = <<"return", Board_is_valid_move(fn_call[2], fn_call[3]),
                                 Game_is_valid_move(fn_call[2], fn_call[3])>>
    /\ BoardCallFrame

\* Game::check_if_over on a Game of board fn_call[2] and state fn_call[3],
\* beside Board::get_winning_line and Board::is_full on the same board.
CheckIfOverCall ==
    /\ fn_call[1] = "check_if_over"
    /\ fn_result = None
    /\ fn_result' = <<"return", check_if_over(fn_call[2], players, fn_call[3]),
                                 get_winning_line(fn_call[2]), is_full(fn_call[2])>>
    /\ BoardCallFrame

NextBoard ==
    \/ BoardNew
    \/ DisplayBoardMove
    \/ GetPossibleMoves
    \/ GetWinningLine
    \/ MaximizingPlayerSymbol
    \/ IsValidMove
    \/ CheckIfOverCall

\* One call of one Board function, on any of its inputs.
SpecBoard == InitBoard /\ [][NextBoard]_vars

\* ------------------------------------------------------------ claims on Board functions

\* C21 as stated: the display form of the move built by try_new(n) is n.
C21_DisplaysNumber ==
    (fn_call[1] = "to_string" /\ fn_result # None) =>
        fn_result = <<"return", AsciiNum(fn_call[2])>>

\* The cells of bd holding a mark, and those that are Empty, counted
\* from the cells themselves.
OccupiedIndices(bd) == {i \in Indices : bd[i] = CellO \/ bd[i] = CellX}

EmptyIndices(bd) == Indices \ OccupiedIndices(bd)

GetPossibleMovesCalled == fn_call[1] = "get_possible_moves" /\ fn_result # None

\* C22: get_possible_moves returns exactly the moves of the Empty cells, each
\* once, in ascending index order; its length plus the number of occupied
\* cells is 9; it is empty on a full board; and on the board with a mark
\* placed at an index, that index is not returned.
C22_PossibleMoves ==
    GetPossibleMovesCalled =>
        LET bd == fn_call[2]
            moves == fn_result[2]
        IN  /\ {moves[k].index : k \in 1 .. Len(moves)} = EmptyIndices(bd)
            /\ \A j, k \in 1 .. Len(moves) : j < k => moves[j].index < moves[k].index
            /\ Len(moves) + Cardinality(OccupiedIndices(bd)) = 9
            /\ (EmptyIndices(bd) = {} => moves = <<>>)
            /\ \A i \in Indices, mark \in {CellO, CellX} :
                   LET after == get_possible_moves([bd EXCEPT ![i] = mark])
                   IN  \A k \in 1 .. Len(after) : after[k].index # i

C22_Witness ==
    /\ GetPossibleMovesCalled
    /\ fn_call[2][0] = CellX
    /\ fn_call[2][8] = CellO
    /\ Len(fn_result[2]) = 4

IsValidMoveCalled == fn_call[1] = "is_valid_move" /\ fn_result # None

\* C23: Board::is_valid_move and Game::is_valid_move are both true exactly when
\* the cell at the move's index is Empty, so they agree on every board and move.
C23_ValidityAgrees ==
    IsValidMoveCalled =>
        /\ fn_result[2] = (fn_call[3].index \in EmptyIndices(fn_call[2]))
        /\ fn_result[3] = (fn_call[3].index \in EmptyIndices(fn_call[2]))
        /\ fn_result[2] = fn_result[3]

C23_Witness ==
    /\ IsValidMoveCalled
    /\ fn_call[3].index = 4
    /\ fn_call[2][4] = CellX
    /\ EmptyIndices(fn_call[2]) # {}
    /\ fn_result = <<"return", FALSE, FALSE>>

\* The labels '1' to '9' in cell order, written out.
CellLabels == <<"1", "2", "3", "4", "5", "6", "7", "8", "9">>

\* C24: Board::new() has 9 Empty cells, cell i labelled i + 1, 9 legal
\* moves, is not full and has no winning line.
C24_NewBoard ==
    (fn_call[1] = "Board::new" /\ fn_result # None) =>
        LET bd == fn_result[2]
        IN  /\ DOMAIN bd = 0 .. 8
            /\ \A i \in 0 .. 8 : IsEmpty(bd[i]) /\ bd[i] = CellLabels[i + 1]
            /\ Len(get_possible_moves(bd)) = 9
            /\ \A k \in 1 .. 9 : Board_is_valid_move(bd, MovesInOrder[k])
            /\ ~is_full(bd)
            /\ get_winning_line(bd) = None

C24_Witness ==
    /\ fn_call[1] = "Board::new"
    /\ fn_result # None
    /\ fn_result[2][8] = "9"

\* Line i of WINNING_LINES holds the same mark, O or X, three times.
MarkLine(bd, i) ==
    \E mark \in {CellO, CellX} :
        \A k \in 1 .. 3 : bd[Board_WINNING_LINES[i + 1][k]] = mark

GetWinningLineCalled == fn_call[1] = "get_winning_line" /\ fn_result # None

\* C25: on every board get_winning_line returns Some(i) for the smallest i
\* whose three cells hold the same mark O or X, and None when there is no
\* such i; a line of three Empty cells, also with equal labels, is never
\* returned.
C25_SmallestMarkLine ==
    GetWinningLineCalled =>
        LET bd == fn_call[2]
        IN  /\ \A i \in 0 .. 7 :
                   fn_result[2] = Some(i) <=>
                       (MarkLine(bd, i) /\ \A j \in 0 .. 7 : j < i => ~MarkLine(bd, j))
            /\ fn_result[2] = None <=> ~ \E i \in 0 .. 7 : MarkLine(bd, i)
            /\ \A i \in 0 .. 7 :
                   fn_result[2] = Some(i) =>
                       \A k \in 1 .. 3 : ~IsEmpty(bd[Board_WINNING_LINES[i + 1][k]])

\* Line 3 (the first row) is three Empty cells of equal label, line 4 (the
\* second row) three X.
C25_Witness ==
    /\ GetWinningLineCalled
    /\ \A i \in {0, 1, 2} : fn_call[2][i] = AsciiNum(0)
    /\ \A i \in {3, 4, 5} : fn_call[2][i] = CellX
    /\ fn_result[2] = Some(4)

\* bd with every Empty cell relabelled '0'.
Unlabelled(bd) == [i \in Indices |-> IF IsEmpty(bd[i]) THEN AsciiNum(0) ELSE bd[i]]

MaximizingPlayerSymbolCalled == fn_call[1] = "maximizing_player_symbol" /\ fn_result # None

\* C26: the mark the engine optimizes for is O when the number of non-Empty
\* cells of the board is even and X when it is odd, whichever player calls
\* and whatever the labels of the Empty cells.
C26_SymbolFromParity ==
    MaximizingPlayerSymbolCalled =>
        LET bd == fn_call[2]
            occupied == Cardinality({i \in Indices : bd[i] = CellO})
                        + Cardinality({i \in Indices : bd[i] = CellX})
        IN  /\ (occupied % 2 = 0 => fn_result[2] = CellO)
            /\ (occupied % 2 = 1 => fn_result[2] = CellX)
            /\ fn_result[2] = current_player_symbol(Unlabelled(bd))

\* Called on the second player, on a board of two O and no X: the result is O.
C26_Witness ==
    /\ MaximizingPlayerSymbolCalled
    /\ fn_call[3] = 1
    /\ Cardinality({i \in Indices : fn_call[2][i] = CellO}) = 2
    /\ Cardinality({i \in Indices : fn_call[2][i] = CellX}) = 0
    /\ fn_result[2] = CellO

\* ------------------------------------------------------------ claims on the turns of a match

\* C27: at every move request during start the active player index is the
\* number of occupied cells modulo 2, and the mark an applied move places is
\* the one the parity rule derives from the board (even: O, odd: X).
C27_IndexIsParity ==
    [][pc = "get_move" =>
           /\ current_player = Cardinality(OccupiedIndices(board)) % 2
           /\ current_player_symbol(board) = MarkOfPlayer(current_player)
           /\ (board' # board =>
                  \E i \in EmptyIndices(board) :
                      board' = [board EXCEPT ![i] =
                                   IF Cardinality(OccupiedIndices(board)) % 2 = 0
                                   THEN CellO ELSE CellX])]_vars

C27_Witness ==
    /\ pc = "check_if_over"
    /\ current_player = 1
    /\ Cardinality(OccupiedIndices(board)) = 4
    /\ Cardinality({i \in Indices : board[i] = CellX}) = 2

\* C28: the board an applied move produced has been passed to update_board
\* whenever a move is requested and when the result is notified: one call at
\* the start of each turn, and one more after the loop, before notify_result.
C28_BoardShownFirst ==
    /\ (pc = "get_move" =>
            ui_board = Some(board) /\ update_board_calls = applied_moves + 1)
    /\ (pc \in {"check_if_over", "while", "take_turn", "announce_result"} =>
            update_board_calls = applied_moves)
    /\ (pc = "notify_result" =>
            /\ IsFinished(game_state)
            /\ ui_board = Some(board)
            /\ update_board_calls = applied_moves + 1)
    /\ (notify_result_calls > 0 =>
            ui_board = Some(board) /\ update_board_calls = applied_moves + 1)

C28_Witness ==
    /\ pc = "idle"
    /\ notify_result_calls = 1
    /\ applied_moves = 5
    /\ update_board_calls = 6
    /\ ui_board = Some(board)

\* The player who placed the last mark of a match begun on an empty board:
\* the first when there are more O than X, the second otherwise.
LastMover(bd) ==
    IF Cardinality({i \in Indices : bd[i] = CellO}) > Cardinality({i \in Indices : bd[i] = CellX})
    THEN 0 ELSE 1

\* C30 as stated: the active player index is flipped only when the game
\* remains Ongoing after a move, so in the Finished state current_player is
\* the player who made the last move.
C30_FlipOnlyWhenOngoing ==
    [][/\ (current_player' # current_player => game_state' = Ongoing)
       /\ (IsFinished(game_state') => current_player' = LastMover(board'))]_vars

\* C30, amended: the active player index is flipped after every applied move,
\* also after the move that ends the game, and at no other step; so in the
\* Finished state current_player is the player who did not make the last move.
C30_FlipAfterEveryMove ==
    [][/\ (pc = "check_if_over" => current_player' = 1 - current_player)
       /\ (current_player' # current_player => pc = "check_if_over")
       /\ (IsFinished(game_state') => current_player' = 1 - LastMover(board'))]_vars

\* The second player has won and start has returned: the index is the first's.
C30_Witness ==
    /\ pc = "idle"
    /\ IsFinished(game_state)
    /\ game_state[2] # Draw
    /\ LastMover(board) = 1
    /\ current_player = 0

\* ------------------------------------------------------------ the scores of TicTacToe

\* The number of calls of TicTacToe::update_scores that are followed.
MaxUpdates == 6

\* GameResult as update_scores matches it.
GameResult_Draw == <<"Draw">>

GameResult_PlayerWon(index, name, line) == <<"PlayerWon", index, name, line>>

\* The results of a match between the players of tests::update_scores.
GameResults ==
    {GameResult_Draw}
    \cup {GameResult_PlayerWon(0, "Steve", line) : line \in 0 .. 7}
    \cup {GameResult_PlayerWon(1, "CPU", line) : line \in 0 .. 7}

\* The match statement of update_scores.
scores_after_match(sc, result) ==
    IF result[1] = "PlayerWon" /\ result[2] = 0 THEN <<sc[1] + 1, sc[2]>>
    ELSE IF result[1] = "PlayerWon" /\ result[2] = 1 THEN <<sc[1], sc[2] + 1>>
    ELSE sc

\* The number of calls of update_scores so far, kept in the call record.
UpdateNumber == IF fn_call[1] = "update_scores" THEN fn_call[3] ELSE 0

\* TicTacToe::new with a MockUi, before any call of update_scores.
InitScores ==
    /\ board = Board_new
    /\ players = <<Human("Steve"), CPU>>
    /\ current_player = 0
    /\ game_state = NotStarted
    /\ pc = "idle"
    /\ error_message = None
    /\ turn_requests = 0
    /\ request_annotation = None
    /\ player_move = None
    /\ applied_moves = 0
    /\ start_calls = 0
    /\ update_board_calls = 0
    /\ ui_board = None
    /\ notify_result_calls = 0
    /\ fn_call = <<"TicTacToe::new">>
    /\ fn_result = None
    /\ scores = <<0, 0>>
    /\ update_scores_calls = 0
    /\ ui_scores = None

\* Mutation: the Ui is not told of a draw.
UpdateScores_silent_draw(result) ==
    /\ UpdateNumber < MaxUpdates
    /\ fn_call' = <<"update_scores", result, UpdateNumber + 1>>
    /\ scores' = scores_after_match(scores, result)
    /\ IF result = GameResult_Draw
       THEN UNCHANGED <<update_scores_calls, ui_scores>>
       ELSE /\ update_scores_calls' = update_scores_calls + 1
            /\ ui_scores' = Some(scores')
    /\ UNCHANGED <<fn_result, game_vars, pc, turn_vars, applied_moves, start_calls, ui_vars>>

\* TicTacToe::update_scores(player1, player2, result): the match on the
\* result, then Ui::update_scores with the two scores (MockUi counts the call).
UpdateScores(result) ==
    /\ UpdateNumber < MaxUpdates
    /\ fn_call' = <<"update_scores", result, UpdateNumber + 1>>
    /\ scores' = scores_after_match(scores, result)
    /\ update_scores_calls' = update_scores_calls + 1
    /\ ui_scores' = Some(scores')
    /\ UNCHANGED <<fn_result, game_vars, pc, turn_vars, applied_moves, start_calls, ui_vars>>

NextScores == \E result \in GameResults : UpdateScores(result)

\* TicTacToe::new, then calls of update_scores with any results.
SpecScores == InitScores /\ [][NextScores]_vars

\* C29: update_scores adds 1 to the first score for a result won by player
\* index 0, 1 to the second score for one won by player index 1, changes
\* neither for a Draw, and calls Ui.update_scores exactly once per call in
\* all three cases; the scores start at (0, 0).
C29_UpdateScores ==
    [][/\ (fn_call[1] = "TicTacToe::new" => scores = <<0, 0>>)
       /\ (fn_call' # fn_call /\ fn_call'[1] = "update_scores") =>
              /\ (fn_call'[2][1] = "PlayerWon" /\ fn_call'[2][2] = 0 =>
                      scores'[1] = scores[1] + 1 /\ scores'[2] = scores[2])
              /\ (fn_call'[2][1] = "PlayerWon" /\ fn_call'[2][2] = 1 =>
                      scores'[1] = scores[1] /\ scores'[2] = scores[2] + 1)
              /\ (fn_call'[2] = <<"Draw">> => scores' = scores)
              /\ update_scores_calls' = update_scores_calls + 1
              /\ ui_scores' = Some(scores')]_vars

\* The end of tests::update_scores: a win of each player, then a draw.
C29_Witness ==
    /\ fn_call[1] = "update_scores"
    /\ fn_call[2] = <<"Draw">>
    /\ fn_call[3] = 3
    /\ scores = <<1, 1>>
    /\ update_scores_calls = 3
    /\ ui_scores = Some(<<1, 1>>)

\* ------------------------------------------------------------ the engine on boards with a completed line

\* C31 as stated: on a board with a completed line and an Empty cell
\* calculate_best_move fails instead of returning a move.
C31_FailsOnLineBoard ==
    (BestMoveCalled /\ HasLine(fn_call[2]) /\ HasEmpty(fn_call[2])) =>
        fn_result = <<"panic">>

\* C31, amended: on a board with a completed line and an Empty cell
\* calculate_best_move does not fail; it returns a move on an Empty cell.  It
\* fails exactly on the boards without Empty cell.
C31_ReturnsOnLineBoard ==
    BestMoveCalled =>
        /\ (HasLine(fn_call[2]) /\ HasEmpty(fn_call[2])) =>
               /\ fn_result[1] = "return"
               /\ fn_result[2].index \in EmptyIndices(fn_call[2])
        /\ fn_result = <<"panic">> <=> EmptyIndices(fn_call[2]) = {}

\* O holds the first column; a move on the Empty cell 8 is returned.
C31_Witness ==
    /\ BestMoveCalled
    /\ fn_call[2] = Placed({0, 3, 6}, {1, 2})
    /\ fn_result = <<"return", [index |-> 8]>>

\* C32: in a match run by start a move is requested only in the Ongoing
\* state, on a board with an Empty cell and without completed line, so the
\* search engine is never called on a full board or on one with a line, and
\* never fails.
C32_EngineCalledOnOpenBoard ==
    /\ pc = "get_move" =>
           /\ game_state = Ongoing
           /\ ~is_full(board)
           /\ get_winning_line(board) = None
           /\ get_move_results(players[current_player + 1], board) # {}
    /\ pc # "panicked"

\* The CPU is asked for the last move of a match.
C32_Witness ==
    /\ pc = "get_move"
    /\ players[current_player + 1] = CPU
    /\ OccupiedCount(board) = 8

\* ------------------------------------------------------------ the retry loop of take_turn

\* C33 as stated, for the greatest number of refused answers that is
\* counted: after that many answers naming occupied cells take_turn asks no
\* more.
C33_RetryBounded ==
    [][(/\ pc = "get_move"
        /\ turn_requests >= MaxRequests - 1
        /\ error_message = Some(CellNotEmpty)) => pc' # "get_move"]_vars

\* C33, amended: the loop of take_turn is left only by an answer naming an
\* Empty cell, which is applied; after an answer naming an occupied cell,
\* however many came before, it asks again with the annotation and the board
\* as it was.
C33_LeftOnlyByLegalMove ==
    [][pc = "get_move" =>
          /\ player_move' # None
          /\ pc' # "get_move" =>
                 /\ IsEmpty(board[player_move'[1].index])
                 /\ applied_moves' = applied_moves + 1
          /\ ~IsEmpty(board[player_move'[1].index]) =>
                 /\ pc' = "get_move"
                 /\ error_message' = Some(CellNotEmpty)
                 /\ board' = board
                 /\ applied_moves' = applied_moves]_vars

\* Every request counted was refused, the last answer naming cell 0, and the
\* loop still asks.
C33_Witness ==
    /\ pc = "get_move"
    /\ turn_requests = MaxRequests - 1
    /\ error_message = Some(CellNotEmpty)
    /\ request_annotation = Some(CellNotEmpty)
    /\ player_move = Some([index |-> 0])
    /\ OccupiedCount(board) = 1

\* ------------------------------------------------------------ the boards of the search

\* The boards one placement of mark on an Empty cell of bd leads to: each
\* differs from bd in that cell only.
SinglePlacements(bd, mark) == {[bd EXCEPT ![i] = mark] : i \in EmptyIndices(bd)}

\* C34: calculate_best_move and minimax leave the board they are given, and
\* the board of the game, as they were; and each branch of the search is
\* scored on the given board with its own placement only: minimax of a
\* board without line and with Empty cells is the greatest (the least) of
\* the values of the boards one placement away.
C34_BoardNotModified ==
    [][(fn_call[1] \in {"calculate_best_move", "minimax"} /\ fn_result' # fn_result) =>
          /\ fn_call' = fn_call
          /\ board' = board
          /\ (fn_call[1] = "minimax" /\ ~IsTerminal(fn_call[2])) =>
                 LET mark == IF fn_call[4] THEN fn_call[3] ELSE opposite(fn_call[3])
                     values == {minimax(b, fn_call[3], ~fn_call[4], fn_call[5] + 1) :
                                    b \in SinglePlacements(fn_call[2], mark)}
                 IN  fn_result' = <<"return",
                                    IF fn_call[4] THEN SetMax(values) ELSE SetMin(values)>>
          /\ (fn_call[1] = "calculate_best_move" /\ HasEmpty(fn_call[2])) =>
                 LET mark == current_player_symbol(fn_call[2])
                     values == {minimax(b, mark, FALSE, 1) :
                                    b \in SinglePlacements(fn_call[2], mark)}
                 IN  /\ fn_result'[1] = "return"
                     /\ minimax([fn_call[2] EXCEPT ![fn_result'[2].index] = mark],
                                mark, FALSE, 1) = SetMax(values)]_vars

\* A search of the board with O on 0 and 4 and X on 8 has returned.
C34_Witness ==
    /\ fn_call = <<"calculate_best_move", Placed({0, 4}, {8})>>
    /\ fn_result # None
    /\ fn_result[1] = "return"
    /\ board = Board_new

\* ------------------------------------------------------------ the end of a match

\* The match is finished with the result PlayerWon.
WonState == IsFinished(game_state) /\ game_state[2][1] = "PlayerWon"

CountOf(bd, mark) == Cardinality({i \in Indices : bd[i] = mark})

\* C35: when a match finishes with PlayerWon(name, line), line is in 0..7,
\* the three cells of WINNING_LINES[line] on the final board hold the same
\* mark, O or X, and that mark is the one of the player whose name is
\* reported.
C35_ReportedLineIsMarked ==
    WonState =>
        LET name == game_state[2][2]
            line == game_state[2][3]
        IN  /\ line \in 0 .. 7
            /\ \E w \in {0, 1} :
                   /\ name = DisplayName(players[w + 1])
                   /\ \A k \in 1 .. 3 :
                          /\ board[Game_WINNING_LINES[line + 1][k]] = MarkOfPlayer(w)
                          /\ ~IsEmpty(board[Game_WINNING_LINES[line + 1][k]])

\* The second player, a human, has won on the secondary diagonal.
C35_Witness ==
    /\ pc = "idle"
    /\ WonState
    /\ players = <<Human(Player1Name), Human(Player2Name)>>
    /\ game_state[2] = PlayerWon(Player2Name, 7)

\* C36: when a match ends in PlayerWon the winner is the player who applied
\* the final move, the reported line contains the cell of that move, and
\* the final board has no completed line of the other mark.
C36_LastMoverWins ==
    WonState =>
        LET last == LastMover(board)
            line == game_state[2][3]
        IN  /\ game_state[2][2] = DisplayName(players[last + 1])
            /\ player_move # None
            /\ board[player_move[1].index] = MarkOfPlayer(last)
            /\ player_move[1].index \in {Game_WINNING_LINES[line + 1][k] : k \in 1 .. 3}
            /\ \A k \in 1 .. 3 : board[Game_WINNING_LINES[line + 1][k]] = MarkOfPlayer(last)
            /\ ~ \E l \in 1 .. 8 :
                     \A k \in 1 .. 3 : board[Game_WINNING_LINES[l][k]] = MarkOfPlayer(1 - last)

\* The first player, a human, wins with the ninth move, on cell 4, which
\* completes two lines.
C36_Witness ==
    /\ pc = "idle"
    /\ WonState
    /\ players = <<Human(Player1Name), Human(Player2Name)>>
    /\ applied_moves = 9
    /\ player_move = Some([index |-> 4])
    /\ \A i \in {0, 8, 2, 6} : board[i] = CellO

\* C37: in every state of a match the number of O cells minus the number of
\* X cells is 0 or 1, and the two counts together are the applied moves.
C37_MarksAlternate ==
    /\ CountOf(board, CellO) - CountOf(board, CellX) \in {0, 1}
    /\ CountOf(board, CellO) + CountOf(board, CellX) = applied_moves
    /\ CountOf(board, CellO) = (applied_moves + 1) \div 2

C37_Witness ==
    /\ pc = "check_if_over"
    /\ CountOf(board, CellO) = 3
    /\ CountOf(board, CellX) = 3
    /\ current_player = 1

\* ------------------------------------------------------------ the values of the search

\* The values a finished search can have: a draw, a win or a loss within
\* nine plies.
SearchValues == {0} \cup (91 .. 99) \cup {-v : v \in 91 .. 99}

\* best_eval after the loop of calculate_best_move on bd.
BestEval(bd) == SetMax({-1000} \cup {MoveScore(bd, i) : i \in EmptyIndices(bd)})

\* C38: the value minimax returns is 0, or in 91..99, or in -99..-91, never
\* the initial -1000 or 1000; and after the loop of calculate_best_move on a
\* board with a legal move best_eval is greater than -1000 and best_moves is
\* not empty.
C38_ValuesInRange ==
    /\ (fn_call[1] = "minimax" /\ fn_result # None) =>
           /\ fn_result[1] = "return"
           /\ fn_result[2] \in SearchValues
           /\ fn_result[2] \notin {-1000, 1000}
    /\ (BestMoveCalled /\ HasEmpty(fn_call[2])) =>
           /\ BestEval(fn_call[2]) > -1000
           /\ BestEval(fn_call[2]) \in SearchValues
           /\ BestMoves[OccupiedCount(fn_call[2])][fn_call[2]] # <<>>
           /\ fn_result[1] = "return"
           /\ MoveScore(fn_call[2], fn_result[2].index) = BestEval(fn_call[2])

\* The minimizing side is to move on a board of four marks, two plies into
\* the search, and the search finds the maximizing side winning.
C38_Witness ==
    /\ fn_call[1] = "minimax"
    /\ ~IsTerminal(fn_call[2])
    /\ OccupiedCount(fn_call[2]) = 4
    /\ fn_call[4] = FALSE
    /\ fn_result # None
    /\ fn_result[2] \in 91 .. 99

\* ------------------------------------------------------------ check_if_over and the Board queries

CheckIfOverCalled == fn_call[1] = "check_if_over" /\ fn_result # None

\* C39: on every board check_if_over reports PlayerWon with line i exactly
\* when get_winning_line is Some(i), Draw exactly when get_winning_line is
\* None and is_full is true, and leaves the state as it found it otherwise;
\* the two tables of lines are the same.
C39_CheckIfOverAgrees ==
    /\ Game_WINNING_LINES = Board_WINNING_LINES
    /\ CheckIfOverCalled =>
           LET after == fn_result[2]
               winning_line == fn_result[3]
               full == fn_result[4]
           IN  /\ \A i \in 0 .. 7 :
                      (after[1] = "Finished" /\ after[2][1] = "PlayerWon" /\ after[2][3] = i)
                          <=> winning_line = Some(i)
               /\ (after[1] = "Finished" /\ after[2][1] = "PlayerWon") <=> winning_line # None
               /\ after = Finished(Draw) <=> (winning_line = None /\ full)
               /\ (winning_line = None /\ ~full) => after = fn_call[3]

\* A full board with three X in the second row: PlayerWon on line 4, not Draw.
C39_Witness ==
    /\ CheckIfOverCalled
    /\ fn_call[2] = Placed({0, 1, 6, 7, 8}, {2, 3, 4, 5})
    /\ fn_result[2] = Finished(PlayerWon("CPU", 4))
    /\ fn_result[3] = Some(4)
    /\ fn_result[4] = TRUE
====
